---- MODULE Spec2Model ----
(***************************************************************************)
(* TrinoDriver (packages/driver.trino/src/ls/driver.ts): the connection    *)
(* wrapper (open/close around one memoized client promise), the statement  *)
(* loop of query(), and the callback-driven executeQuery().                *)
(*                                                                         *)
(* Promises are modelled by their fate: a promise made by Promise.resolve  *)
(* is identified with the value it resolves to; a promise an async method  *)
(* returns is a record whose outcome is fixed by the method body and whose *)
(* "settled" flag is set by a later step (the microtask in which the       *)
(* caller observes it).  Text is a sequence of one-character strings.      *)
(***************************************************************************)
EXTENDS Integers, Sequences, FiniteSets, TLC

\* ------------------------------------------------------------------ bounds
MaxOpens == 3
MaxCloses == 3
MaxQueryLen == 3
MaxCalls == 3
MaxEvents == 3

\* --------------------------------------------------------------- constants
\* this.connection when no promise is memoized (undefined before the first
\* open(), null after close()); client handles are 1, 2, ...
Null == 0

\* the value of an error slot that holds no error
NoError == [kind |-> "none"]

\* opt.requestId of a call that has not been made
NoRequest == "none"

\* what `new presto.Client(connOptions)` may throw
CtorErrors == {[kind |-> "ctor", id |-> 1], [kind |-> "ctor", id |-> 2]}

VARIABLES
  connection,   \* this.connection: Null, or the handle its promise resolves to
  clients,      \* number of presto.Client objects constructed so far
  ctorLog,      \* the outcome of every `new presto.Client` evaluation, in order
  opens,        \* the open() calls made so far, in call order
  closes,       \* the close() calls made so far, in call order
  qpc,          \* where the query() call stands: idle, open, loop, await, returned, rejected
  queryArg,     \* query(): the `query` parameter, the whole submitted text
  requestId,    \* query(): opt.requestId
  qopen,        \* query(): index in opens of its own `this.open()` call
  db,           \* query(): the client `await this.open()` gave
  stmts,        \* query(): the array QueryParser.statements(query) being iterated
  qi,           \* query(): position of the for-of loop in stmts
  resultsAgg,   \* query(): the records pushed so far
  qerror,       \* query(): what the returned promise rejected with
  execs,        \* every executeQuery() call: its closure (results, cols, the promise) and
                \* the engine's side of it (db, query, the callbacks made so far)
  ids,          \* number of identifiers generateId() has handed out
  tpc,          \* where the testConnection() call stands: idle, open, query, resolved, rejected
  topen,        \* testConnection(): index in opens of its own `this.open()` call
  tresult,      \* testConnection(): what the returned promise settled with
  lookups       \* the getChildrenForItem() calls made so far: argument and result

connVars == <<connection, clients, ctorLog, opens, closes>>
queryVars == <<qpc, queryArg, requestId, qopen, db, stmts, qi, resultsAgg, qerror, execs, ids>>
auxVars == <<tpc, topen, tresult, lookups>>
vars == <<connection, clients, ctorLog, opens, closes,
          qpc, queryArg, requestId, qopen, db, stmts, qi, resultsAgg, qerror, execs, ids,
          tpc, topen, tresult, lookups>>

\* number of close() calls that have discarded a handle so far
discards == Cardinality({k \in DOMAIN closes : closes[k].found /\ closes[k].pc = "done"})

\* ------------------------------------------------------------ open / close
\* The promise open() returns, stamped with the close() activity seen so far.
openCall(outcome, value, error, attempted, constructed) ==
  [outcome |-> outcome, value |-> value, error |-> error, settled |-> FALSE,
   attempted |-> attempted, constructed |-> constructed, ctor |-> Len(ctorLog) + 1,
   before |-> connection, closeCalls |-> Len(closes), discards |-> discards]

\* open() without the early return on a memoized promise
open_reconnect(throws, err) ==
  IF throws
  THEN /\ opens' = Append(opens, openCall("rejected", Null, err, TRUE, FALSE))
       /\ ctorLog' = Append(ctorLog, [threw |-> TRUE, error |-> err, client |-> Null])
       /\ UNCHANGED <<connection, clients>>
  ELSE /\ clients' = clients + 1
       /\ ctorLog' = Append(ctorLog, [threw |-> FALSE, error |-> NoError, client |-> clients + 1])
       /\ connection' = clients + 1
       /\ opens' = Append(opens, openCall("resolved", clients + 1, NoError, TRUE, TRUE))

\* open() memoizing the failed construction: this.connection = Promise.reject(error)
open_memoFailure(throws, err) ==
  IF connection # Null
  THEN /\ opens' = Append(opens, openCall("resolved", connection, NoError, FALSE, FALSE))
       /\ UNCHANGED <<connection, clients, ctorLog>>
  ELSE IF throws
  THEN /\ opens' = Append(opens, openCall("rejected", Null, err, TRUE, FALSE))
       /\ ctorLog' = Append(ctorLog, [threw |-> TRUE, error |-> err, client |-> Null])
       /\ connection' = clients + 1
       /\ clients' = clients + 1
  ELSE /\ clients' = clients + 1
       /\ ctorLog' = Append(ctorLog, [threw |-> FALSE, error |-> NoError, client |-> clients + 1])
       /\ connection' = clients + 1
       /\ opens' = Append(opens, openCall("resolved", clients + 1, NoError, TRUE, TRUE))

\* open(): the whole body runs in the caller's turn (it contains no await).
\* throws/err: whether `new presto.Client` throws, and what.
open(throws, err) ==
  IF connection # Null
  THEN /\ opens' = Append(opens, openCall("resolved", connection, NoError, FALSE, FALSE))
       /\ UNCHANGED <<connection, clients, ctorLog>>
  ELSE IF throws
  THEN /\ opens' = Append(opens, openCall("rejected", Null, err, TRUE, FALSE))
       /\ ctorLog' = Append(ctorLog, [threw |-> TRUE, error |-> err, client |-> Null])
       /\ UNCHANGED <<connection, clients>>
  ELSE /\ clients' = clients + 1
       /\ ctorLog' = Append(ctorLog, [threw |-> FALSE, error |-> NoError, client |-> clients + 1])
       /\ connection' = clients + 1
       /\ opens' = Append(opens, openCall("resolved", clients + 1, NoError, TRUE, TRUE))

\* close() opening the connection first, so that there is always one to await
close_viaOpen ==
  IF connection = Null
  THEN /\ closes' = Append(closes, [pc |-> "await", found |-> FALSE, awaited |-> clients + 1])
       /\ connection' = clients + 1
       /\ clients' = clients + 1
       /\ ctorLog' = Append(ctorLog, [threw |-> FALSE, error |-> NoError, client |-> clients + 1])
       /\ UNCHANGED opens
  ELSE /\ closes' = Append(closes, [pc |-> "await", found |-> TRUE, awaited |-> connection])
       /\ UNCHANGED <<connection, clients, ctorLog, opens>>

\* close() up to its first suspension: returns at once when nothing is
\* memoized, otherwise suspends on `await this.connection`.
close ==
  IF connection = Null
  THEN /\ closes' = Append(closes, [pc |-> "done", found |-> FALSE, awaited |-> Null])
       /\ UNCHANGED <<connection, clients, ctorLog, opens>>
  ELSE /\ closes' = Append(closes, [pc |-> "await", found |-> TRUE, awaited |-> connection])
       /\ UNCHANGED <<connection, clients, ctorLog, opens>>

\* close() that awaits the handle and keeps the reference
closeResume_keep(k) ==
  /\ closes[k].pc = "await"
  /\ closes' = [closes EXCEPT ![k].pc = "done"]
  /\ UNCHANGED <<connection, clients, ctorLog, opens>>

\* close() after the await: `this.connection = null`.
closeResume(k) ==
  /\ closes[k].pc = "await"
  /\ connection' = Null
  /\ closes' = [closes EXCEPT ![k].pc = "done"]
  /\ UNCHANGED <<clients, ctorLog, opens>>

\* ------------------------------------------------ the host calling the API
Open ==
  /\ Len(opens) < MaxOpens
  /\ \E throws \in BOOLEAN, err \in CtorErrors : open(throws, err)
  /\ UNCHANGED closes
  /\ UNCHANGED <<queryVars, auxVars>>

\* the caller's continuation of `await driver.open()`
OpenSettle ==
  \E i \in DOMAIN opens :
    /\ ~opens[i].settled
    /\ i # qopen
    /\ opens' = [opens EXCEPT ![i].settled = TRUE]
    /\ UNCHANGED <<connection, clients, ctorLog, closes>>
    /\ UNCHANGED <<queryVars, auxVars>>

Close ==
  /\ Len(closes) < MaxCloses
  /\ close
  /\ UNCHANGED <<queryVars, auxVars>>

CloseResume ==
  /\ \E k \in DOMAIN closes : closeResume(k)
  /\ UNCHANGED <<queryVars, auxVars>>

\* -------------------------------------------------------------------- text
NL == "\n"
SQ == "'"
DQ == "\""

Min(S) == CHOOSE x \in S : \A y \in S : x <= y
Max(S) == CHOOSE x \in S : \A y \in S : x >= y

\* all texts of at most n characters over the alphabet A
TextsUpTo(A, n) == UNION {[1..k -> A] : k \in 0..n}

IsSpace(c) == c \in {" ", NL}

\* String.prototype.trim
RECURSIVE trimStart(_)
trimStart(s) ==
  IF s # <<>> /\ IsSpace(Head(s)) THEN trimStart(Tail(s)) ELSE s

RECURSIVE trimEnd(_)
trimEnd(s) ==
  IF s # <<>> /\ IsSpace(s[Len(s)]) THEN trimEnd(SubSeq(s, 1, Len(s) - 1)) ELSE s

trim(s) == trimEnd(trimStart(s))

\* error.message.replace(/\n/g, " ") that stops after the first match (no g flag)
RECURSIVE replaceNewlines_first(_)
replaceNewlines_first(s) ==
  IF s = <<>> THEN <<>>
  ELSE IF Head(s) = NL THEN <<" ">> \o Tail(s)
  ELSE <<Head(s)>> \o replaceNewlines_first(Tail(s))

\* error.message.replace(/\n/g, " ")
RECURSIVE replaceNewlines(_)
replaceNewlines(s) ==
  IF s = <<>> THEN <<>>
  ELSE <<(IF Head(s) = NL THEN " " ELSE Head(s))>> \o replaceNewlines(Tail(s))

\* parts.filter(Boolean).join(" "): the non-empty texts, a space between them
RECURSIVE filterJoin(_)
filterJoin(parts) ==
  IF parts = <<>> THEN <<>>
  ELSE LET rest == filterJoin(Tail(parts))
       IN IF Head(parts) = <<>> THEN rest
          ELSE IF rest = <<>> THEN Head(parts)
          ELSE Head(parts) \o <<" ">> \o rest

\* `${n}`: the decimal digits of a row count
Digit == <<"0", "1", "2", "3", "4", "5", "6", "7", "8", "9">>

RECURSIVE decimal(_)
decimal(n) ==
  IF n < 10 THEN <<Digit[n + 1]>> ELSE decimal(n \div 10) \o <<Digit[(n % 10) + 1]>>

\* `Successfully executed. ${rows.length} rows were affected.`
\* (the two literal fragments are kept as one piece each)
successText(n) == <<"Successfully executed. ">> \o decimal(n) \o <<" rows were affected.">>

\* AbstractDriver.prepareMessage: wraps a text into a message object
\* (its timestamp is left out)
prepareMessage(text) == [message |-> text]

\* this.getId(): the identifier of the owning connection
ConnId == "conn-1"

\* -------------------------------------------------------- statement parser
\* QueryParser.statements: the statements of a text, split at the semicolons
\* that stand outside quoted literals and comments, each trimmed, the empty
\* ones dropped.
emit(out, cur) == IF trim(cur) = <<>> THEN out ELSE Append(out, trim(cur))

RECURSIVE scan(_, _, _, _, _)
scan(q, i, mode, cur, out) ==
  IF i > Len(q) THEN emit(out, cur)
  ELSE
    LET c == q[i]
        two == IF i < Len(q) THEN <<q[i], q[i + 1]>> ELSE <<q[i]>>
    IN CASE mode = "code" /\ c = ";" -> scan(q, i + 1, "code", <<>>, emit(out, cur))
         [] mode = "code" /\ c = SQ -> scan(q, i + 1, "single", Append(cur, c), out)
         [] mode = "code" /\ c = DQ -> scan(q, i + 1, "double", Append(cur, c), out)
         [] mode = "code" /\ two = <<"-", "-">> -> scan(q, i + 2, "line", cur \o two, out)
         [] mode = "code" /\ two = <<"/", "*">> -> scan(q, i + 2, "block", cur \o two, out)
         [] mode = "single" /\ c = SQ -> scan(q, i + 1, "code", Append(cur, c), out)
         [] mode = "double" /\ c = DQ -> scan(q, i + 1, "code", Append(cur, c), out)
         [] mode = "line" /\ c = NL -> scan(q, i + 1, "code", Append(cur, c), out)
         [] mode = "block" /\ two = <<"*", "/">> -> scan(q, i + 2, "code", cur \o two, out)
         [] OTHER -> scan(q, i + 1, mode, Append(cur, c), out)

statements(q) == scan(q, 1, "code", <<>>, <<>>)

\* ---------------------------------------------------------- executeQuery
\* the value slot of a promise that has not resolved
NoValue == [kind |-> "none"]

\* the promise of one executeQuery() call: settled once, by whichever of
\* resolve and reject is called first
reject(x, error) ==
  IF x.state = "pending" THEN [x EXCEPT !.state = "rejected", !.error = error] ELSE x

resolve(x, value) ==
  IF x.state = "pending" THEN [x EXCEPT !.state = "resolved", !.value = value] ELSE x

\* the name-keyed mapping of one positional row: data[columns[idx].name] = value
\* for idx in order, a later column of the same name overwriting an earlier one
rowData(row, columns) ==
  [n \in {columns[i].name : i \in DOMAIN row} |->
     row[Max({i \in DOMAIN row : columns[i].name = n})]]

\* onData that never stores the batch's column list
onData_noCols(x, error, rows, columns) ==
  IF error # NoError THEN reject(x, error)
  ELSE LET bad == {i \in DOMAIN rows : Len(rows[i]) > Len(columns)}
           n == IF bad = {} THEN Len(rows) ELSE Min(bad) - 1
       IN [x EXCEPT !.results = @ \o [i \in 1..n |-> rowData(rows[i], columns)],
                    !.threw = @ \/ bad # {}]

\* onData that keeps the rows of the latest batch only
onData_lastBatch(x, error, rows, columns) ==
  IF error # NoError THEN reject(x, error)
  ELSE LET bad == {i \in DOMAIN rows : Len(rows[i]) > Len(columns)}
           n == IF bad = {} THEN Len(rows) ELSE Min(bad) - 1
       IN [x EXCEPT !.cols = columns,
                    !.results = [i \in 1..n |-> rowData(rows[i], columns)],
                    !.threw = @ \/ bad # {}]

\* onData: the data callback on the closure x.  A row with more values than
\* the batch has descriptors makes columns[idx].name throw inside the
\* callback: the rows before it are kept, the promise is not touched.
onData(x, error, rows, columns) ==
  IF error # NoError THEN reject(x, error)
  ELSE LET bad == {i \in DOMAIN rows : Len(rows[i]) > Len(columns)}
           n == IF bad = {} THEN Len(rows) ELSE Min(bad) - 1
       IN [x EXCEPT !.cols = columns,
                    !.results = @ \o [i \in 1..n |-> rowData(rows[i], columns)],
                    !.threw = @ \/ bad # {}]

\* a completion callback that settles the promise again, the last call winning
callback_lastWins(x, error) ==
  IF error # NoError
  THEN [x EXCEPT !.state = "rejected", !.error = error]
  ELSE [x EXCEPT !.state = "resolved", !.error = NoError,
                 !.value = [query |-> x.query, cols |-> x.cols]]

\* callback: the completion callback on the closure x.  The resolved tuple
\* holds the results array itself (x.results, by reference) and the column
\* list current at that moment.
callback(x, error) ==
  IF error # NoError THEN reject(x, error)
  ELSE resolve(x, [query |-> x.query, cols |-> x.cols])

\* executeQuery(db, query): a fresh closure, handed to db.execute
executeQuery(d, q) ==
  [db |-> d, query |-> q, results |-> <<>>, cols |-> <<>>, threw |-> FALSE,
   state |-> "pending", error |-> NoError, value |-> NoValue, log |-> <<>>]

\* ------------------------------------------------------------------ query
\* the `results` of a record built with a fresh empty array; any other value
\* k is the results array of execs[k], shared with that closure
FreshArray == 0

\* the rows a host reading record r sees
rowsOf(r) == IF r.results = FreshArray THEN <<>> ELSE execs[r.results].results

\* the record of the then-handler for the resolved execs[k]
\* (a success record has no error and no rawError property: FALSE, NoError)
thenRecord(k) ==
  LET columns == execs[k].value.cols
      rows == execs[k].results
  IN [requestId |-> requestId,
      resultId |-> ids + 1,
      connId |-> ConnId,
      cols |-> [i \in DOMAIN columns |-> columns[i].name],
      results |-> k,
      messages |-> <<prepareMessage(filterJoin(<<successText(Len(rows))>>))>>,
      query |-> execs[k].value.query,
      error |-> FALSE,
      rawError |-> NoError]

\* the catch-handler's record with a replace that lacks the g flag
catchRecord_firstNewline(error) ==
  [connId |-> ConnId,
   requestId |-> requestId,
   resultId |-> ids + 1,
   cols |-> <<>>,
   messages |-> <<prepareMessage(filterJoin(<<replaceNewlines_first(error.message)>>))>>,
   error |-> TRUE,
   rawError |-> error,
   query |-> queryArg,
   results |-> FreshArray]

\* the record of the catch-handler for a rejection with `error`
catchRecord(error) ==
  [connId |-> ConnId,
   requestId |-> requestId,
   resultId |-> ids + 1,
   cols |-> <<>>,
   messages |-> <<prepareMessage(filterJoin(<<replaceNewlines(error.message)>>))>>,
   error |-> TRUE,
   rawError |-> error,
   query |-> queryArg,
   results |-> FreshArray]

\* query(query, opt) up to `await this.open()`: open() runs in the same turn
query(q, rid, throws, err) ==
  /\ qpc = "idle"
  /\ queryArg' = q
  /\ requestId' = rid
  /\ resultsAgg' = <<>>
  /\ open(throws, err)
  /\ qopen' = Len(opens) + 1
  /\ qpc' = "open"
  /\ UNCHANGED <<closes, db, stmts, qi, qerror, execs, ids>>

\* the pieces of q between its semicolons, every semicolon taken as a separator
RECURSIVE rawSplit(_, _, _)
rawSplit(q, cur, out) ==
  IF q = <<>> THEN Append(out, cur)
  ELSE IF Head(q) = ";" THEN rawSplit(Tail(q), <<>>, Append(out, cur))
       ELSE rawSplit(Tail(q), Append(cur, Head(q)), out)

\* the pieces trimmed, the blank ones dropped
RECURSIVE cleaned(_)
cleaned(pieces) ==
  IF pieces = <<>> THEN <<>>
  ELSE emit(cleaned(SubSeq(pieces, 1, Len(pieces) - 1)), pieces[Len(pieces)])

\* a query() that goes on to its loop whatever became of open()
queryOpened_ignoreFailure ==
  /\ qpc = "open"
  /\ opens' = [opens EXCEPT ![qopen].settled = TRUE]
  /\ db' = opens[qopen].value
  /\ stmts' = statements(queryArg)
  /\ qi' = 1
  /\ qpc' = "loop"
  /\ UNCHANGED <<auxVars, connection, clients, ctorLog, closes, queryArg, requestId, qopen,
                 resultsAgg, qerror, execs, ids>>

\* a loop over query.split(";") instead of the parser's statements
queryOpened_rawSplit ==
  /\ qpc = "open"
  /\ opens' = [opens EXCEPT ![qopen].settled = TRUE]
  /\ IF opens[qopen].outcome = "resolved"
     THEN /\ db' = opens[qopen].value
          /\ stmts' = rawSplit(queryArg, <<>>, <<>>)
          /\ qi' = 1
          /\ qpc' = "loop"
          /\ UNCHANGED qerror
     ELSE /\ qpc' = "rejected"
          /\ qerror' = opens[qopen].error
          /\ UNCHANGED <<db, stmts, qi>>
  /\ UNCHANGED <<auxVars, connection, clients, ctorLog, closes, queryArg, requestId, qopen,
                 resultsAgg, execs, ids>>

\* a loop over the trimmed non-blank pieces of query.split(";"), blind to quotes
queryOpened_quoteBlind ==
  /\ qpc = "open"
  /\ opens' = [opens EXCEPT ![qopen].settled = TRUE]
  /\ IF opens[qopen].outcome = "resolved"
     THEN /\ db' = opens[qopen].value
          /\ stmts' = cleaned(rawSplit(queryArg, <<>>, <<>>))
          /\ qi' = 1
          /\ qpc' = "loop"
          /\ UNCHANGED qerror
     ELSE /\ qpc' = "rejected"
          /\ qerror' = opens[qopen].error
          /\ UNCHANGED <<db, stmts, qi>>
  /\ UNCHANGED <<auxVars, connection, clients, ctorLog, closes, queryArg, requestId, qopen,
                 resultsAgg, execs, ids>>

\* `const db = await this.open()` resumes: the loop starts over the parsed
\* statements, or the rejection of open() becomes the rejection of query()
queryOpened ==
  /\ qpc = "open"
  /\ opens' = [opens EXCEPT ![qopen].settled = TRUE]
  /\ IF opens[qopen].outcome = "resolved"
     THEN /\ db' = opens[qopen].value
          /\ stmts' = statements(queryArg)
          /\ qi' = 1
          /\ qpc' = "loop"
          /\ UNCHANGED qerror
     ELSE /\ qpc' = "rejected"
          /\ qerror' = opens[qopen].error
          /\ UNCHANGED <<db, stmts, qi>>
  /\ UNCHANGED <<auxVars, connection, clients, ctorLog, closes, queryArg, requestId, qopen,
                 resultsAgg, execs, ids>>

\* a loop that starts every statement at once and awaits them afterwards
queryDispatch_parallel ==
  /\ qpc = "loop"
  /\ qi <= Len(stmts)
  /\ execs' = execs \o [j \in 1..(Len(stmts) - qi + 1) |-> executeQuery(db, stmts[qi + j - 1])]
  /\ qpc' = "await"
  /\ UNCHANGED <<auxVars, connVars, queryArg, requestId, qopen, db, stmts, qi, resultsAgg, qerror, ids>>

\* the loop takes the next statement and calls executeQuery, which hands the
\* statement and the two callbacks to db.execute
queryDispatch ==
  /\ qpc = "loop"
  /\ qi <= Len(stmts)
  /\ execs' = Append(execs, executeQuery(db, stmts[qi]))
  /\ qpc' = "await"
  /\ UNCHANGED <<auxVars, connVars, queryArg, requestId, qopen, db, stmts, qi, resultsAgg, qerror, ids>>

\* the loop is exhausted: `return resultsAgg`
queryReturn ==
  /\ qpc = "loop"
  /\ qi > Len(stmts)
  /\ qpc' = "returned"
  /\ UNCHANGED <<auxVars, connVars, queryArg, requestId, qopen, db, stmts, qi, resultsAgg, qerror, execs, ids>>

\* a loop whose catch-handler pushes nothing for a failed statement
queryCollect_skip ==
  /\ qpc = "await"
  /\ execs[qi].state # "pending"
  /\ IF execs[qi].state = "resolved"
     THEN resultsAgg' = Append(resultsAgg, thenRecord(qi)) /\ ids' = ids + 1
     ELSE UNCHANGED <<resultsAgg, ids>>
  /\ qi' = qi + 1
  /\ qpc' = "loop"
  /\ UNCHANGED <<auxVars, connVars, queryArg, requestId, qopen, db, stmts, qerror, execs>>

\* a loop without the catch-handler: the rejection leaves query()
queryCollect_noCatch ==
  /\ qpc = "await"
  /\ execs[qi].state # "pending"
  /\ IF execs[qi].state = "resolved"
     THEN /\ resultsAgg' = Append(resultsAgg, thenRecord(qi))
          /\ ids' = ids + 1
          /\ qi' = qi + 1
          /\ qpc' = "loop"
          /\ UNCHANGED qerror
     ELSE /\ qpc' = "rejected"
          /\ qerror' = execs[qi].error
          /\ UNCHANGED <<resultsAgg, ids, qi>>
  /\ UNCHANGED <<auxVars, connVars, queryArg, requestId, qopen, db, stmts, execs>>

\* a loop that gives up on a statement the engine has not answered and
\* records a timeout error for it
queryCollect_timeout ==
  /\ qpc = "await"
  /\ resultsAgg' = Append(resultsAgg,
                          IF execs[qi].state = "resolved"
                          THEN thenRecord(qi)
                          ELSE IF execs[qi].state = "rejected"
                          THEN catchRecord(execs[qi].error)
                          ELSE catchRecord([kind |-> "timeout", message |-> <<"t">>]))
  /\ ids' = ids + 1
  /\ qi' = qi + 1
  /\ qpc' = "loop"
  /\ UNCHANGED <<auxVars, connVars, queryArg, requestId, qopen, db, stmts, qerror, execs>>

\* the awaited executeQuery(...).then(...).catch(...) has settled: its record
\* is pushed and the loop goes on.  The i-th statement is the i-th
\* executeQuery call of the query() call.
queryCollect ==
  /\ qpc = "await"
  /\ execs[qi].state # "pending"
  /\ resultsAgg' = Append(resultsAgg,
                          IF execs[qi].state = "resolved"
                          THEN thenRecord(qi)
                          ELSE catchRecord(execs[qi].error))
  /\ ids' = ids + 1
  /\ qi' = qi + 1
  /\ qpc' = "loop"
  /\ UNCHANGED <<auxVars, connVars, queryArg, requestId, qopen, db, stmts, qerror, execs>>

\* ------------------------------------------------------------- the engine
\* presto.Client.execute: for each statement it was handed, the engine calls
\* the data callback and the completion callback, any number of times in any
\* order, during or after the promise's life (at most max calls in all).
RECURSIVE callsUpTo(_)
callsUpTo(k) == IF k = 0 THEN 0 ELSE callsUpTo(k - 1) + Len(execs[k].log)

engineCalls == callsUpTo(Len(execs))

event(type, error, rows, columns) ==
  [type |-> type, error |-> error, rows |-> rows, columns |-> columns]

EngineData(B, max) ==
  /\ \E k \in DOMAIN execs, b \in B :
       /\ engineCalls < max
       /\ execs' = [execs EXCEPT ![k] =
            [onData(@, NoError, b.rows, b.columns) EXCEPT
               !.log = Append(@, event("data", NoError, b.rows, b.columns))]]
  /\ UNCHANGED <<auxVars, connVars, qpc, queryArg, requestId, qopen, db, stmts, qi, resultsAgg, qerror, ids>>

EngineDataError(E, max) ==
  /\ \E k \in DOMAIN execs, e \in E :
       /\ engineCalls < max
       /\ execs' = [execs EXCEPT ![k] =
            [onData(@, e, <<>>, <<>>) EXCEPT
               !.log = Append(@, event("dataError", e, <<>>, <<>>))]]
  /\ UNCHANGED <<auxVars, connVars, qpc, queryArg, requestId, qopen, db, stmts, qi, resultsAgg, qerror, ids>>

EngineDone(max) ==
  /\ \E k \in DOMAIN execs :
       /\ engineCalls < max
       /\ execs' = [execs EXCEPT ![k] =
            [callback(@, NoError) EXCEPT
               !.log = Append(@, event("done", NoError, <<>>, <<>>))]]
  /\ UNCHANGED <<auxVars, connVars, qpc, queryArg, requestId, qopen, db, stmts, qi, resultsAgg, qerror, ids>>

EngineDoneError(E, max) ==
  /\ \E k \in DOMAIN execs, e \in E :
       /\ engineCalls < max
       /\ execs' = [execs EXCEPT ![k] =
            [callback(@, e) EXCEPT
               !.log = Append(@, event("doneError", e, <<>>, <<>>))]]
  /\ UNCHANGED <<auxVars, connVars, qpc, queryArg, requestId, qopen, db, stmts, qi, resultsAgg, qerror, ids>>

\* --------------------------------------------------------- testConnection
\* the statement testConnection() runs
Select1 == <<"S", "E", "L", "E", "C", "T", " ", "1">>

\* what a promise of an async method without a return value resolves to
Undefined == [kind |-> "undefined"]

\* texts.join("\n")
RECURSIVE joinLines(_)
joinLines(texts) ==
  IF texts = <<>> THEN <<>>
  ELSE IF Len(texts) = 1 THEN texts[1]
  ELSE texts[1] \o <<NL>> \o joinLines(Tail(texts))

\* testConnection() up to `await this.open()`
testConnection(throws, err) ==
  /\ tpc = "idle"
  /\ qpc = "idle"
  /\ open(throws, err)
  /\ topen' = Len(opens) + 1
  /\ tpc' = "open"
  /\ UNCHANGED <<closes, queryVars, tresult, lookups>>

\* `await this.open()` resumes: a rejection of open() leaves testConnection()
testOpened ==
  /\ tpc = "open"
  /\ opens' = [opens EXCEPT ![topen].settled = TRUE]
  /\ IF opens[topen].outcome = "resolved"
     THEN tpc' = "call" /\ UNCHANGED tresult
     ELSE tpc' = "rejected" /\ tresult' = opens[topen].error
  /\ UNCHANGED <<connection, clients, ctorLog, closes, queryVars, topen, lookups>>

\* `this.query("SELECT 1", {})` is called (no requestId in the options)
testQuery(throws, err) ==
  /\ tpc = "call"
  /\ query(Select1, NoRequest, throws, err)
  /\ tpc' = "query"
  /\ UNCHANGED <<topen, tresult, lookups>>

\* a testConnection() that never looks at the record
testFinish_noCheck ==
  /\ tpc = "query"
  /\ qpc \in {"returned", "rejected"}
  /\ IF qpc = "rejected"
     THEN tpc' = "rejected" /\ tresult' = qerror
     ELSE tpc' = "resolved" /\ tresult' = Undefined
  /\ UNCHANGED <<connVars, queryVars, topen, lookups>>

\* `await this.query(...)` resumes: the first record decides
testFinish ==
  /\ tpc = "query"
  /\ qpc \in {"returned", "rejected"}
  /\ IF qpc = "rejected"
     THEN tpc' = "rejected" /\ tresult' = qerror
     ELSE IF Len(resultsAgg) > 0 /\ resultsAgg[1].error
     THEN /\ tpc' = "rejected"
          /\ tresult' = [message |-> joinLines([m \in DOMAIN resultsAgg[1].messages |->
                                                  resultsAgg[1].messages[m].message])]
     ELSE tpc' = "resolved" /\ tresult' = Undefined
  /\ UNCHANGED <<connVars, queryVars, topen, lookups>>

\* a driver instance after construction, no call made yet
InitDriver ==
  /\ connection = Null
  /\ clients = 0
  /\ ctorLog = <<>>
  /\ opens = <<>>
  /\ closes = <<>>
  /\ qpc = "idle"
  /\ queryArg = <<>>
  /\ requestId = NoRequest
  /\ qopen = 0
  /\ db = Null
  /\ stmts = <<>>
  /\ qi = 0
  /\ resultsAgg = <<>>
  /\ qerror = NoError
  /\ execs = <<>>
  /\ ids = 0
  /\ tpc = "idle"
  /\ topen = 0
  /\ tresult = NoValue
  /\ lookups = <<>>

InitConn == InitDriver

NextConn == Open \/ OpenSettle \/ Close \/ CloseResume

SpecConn == InitConn /\ [][NextConn]_vars

\* ------------------------------------------------ one query() call (Spec)
\* a column descriptor of the engine
col(name) == [name |-> name, type |-> "varchar"]

engineError(message) == [kind |-> "engine", message |-> message]

QueryChars == {"a", "b", ";"}
Inputs == TextsUpTo(QueryChars, MaxQueryLen)
FewBatches == {[rows |-> << <<1>> >>, columns |-> <<col("a")>>]}
FewErrors == {engineError(<<"e", NL>>)}

\* the instance after one open() that its caller has awaited
InitOpened ==
  /\ connection = 1
  /\ clients = 1
  /\ ctorLog = <<[threw |-> FALSE, error |-> NoError, client |-> 1]>>
  /\ opens = <<[outcome |-> "resolved", value |-> 1, error |-> NoError, settled |-> TRUE,
                attempted |-> TRUE, constructed |-> TRUE, ctor |-> 1,
                before |-> Null, closeCalls |-> 0, discards |-> 0]>>
  /\ closes = <<>>
  /\ qpc = "idle"
  /\ queryArg = <<>>
  /\ requestId = NoRequest
  /\ qopen = 0
  /\ db = Null
  /\ stmts = <<>>
  /\ qi = 0
  /\ resultsAgg = <<>>
  /\ qerror = NoError
  /\ execs = <<>>
  /\ ids = 0
  /\ tpc = "idle"
  /\ topen = 0
  /\ tresult = NoValue
  /\ lookups = <<>>

Init == InitDriver \/ InitOpened

Query ==
  \E q \in Inputs, throws \in BOOLEAN, err \in CtorErrors :
    query(q, "r1", throws, err) /\ UNCHANGED auxVars

Next ==
  \/ Query
  \/ queryOpened
  \/ queryDispatch
  \/ queryCollect
  \/ queryReturn
  \/ EngineData(FewBatches, MaxCalls)
  \/ EngineDataError(FewErrors, MaxCalls)
  \/ EngineDone(MaxCalls)
  \/ EngineDoneError(FewErrors, MaxCalls)

Spec == Init /\ [][Next]_vars

\* ------------------------------- one statement's execution (SpecExec)
ColumnLists ==
  {<<>>, <<col("a")>>, <<col("a"), col("b")>>, <<col("b"), col("b")>>}
RowLists ==
  {<<>>, << <<1>> >>, << <<1, 2>> >>, << <<2, 1>>, <<1, 2>> >>, << <<1>>, <<1, 2>> >>}
Batches == {[rows |-> rs, columns |-> cs] : rs \in RowLists, cs \in ColumnLists}
Errors == {engineError(<<>>), engineError(<<"e">>), engineError(<<NL, "e", NL>>)}

\* query("a;", {requestId: "r1"}) on a fresh instance, just after the loop
\* handed its one statement to the engine
InitExec ==
  /\ connection = 1
  /\ clients = 1
  /\ ctorLog = <<[threw |-> FALSE, error |-> NoError, client |-> 1]>>
  /\ opens = <<[outcome |-> "resolved", value |-> 1, error |-> NoError, settled |-> TRUE,
                attempted |-> TRUE, constructed |-> TRUE, ctor |-> 1,
                before |-> Null, closeCalls |-> 0, discards |-> 0]>>
  /\ closes = <<>>
  /\ qpc = "await"
  /\ queryArg = <<"a", ";">>
  /\ requestId = "r1"
  /\ qopen = 1
  /\ db = 1
  /\ stmts = statements(<<"a", ";">>)
  /\ qi = 1
  /\ resultsAgg = <<>>
  /\ qerror = NoError
  /\ execs = <<executeQuery(1, statements(<<"a", ";">>)[1])>>
  /\ ids = 0
  /\ tpc = "idle"
  /\ topen = 0
  /\ tresult = NoValue
  /\ lookups = <<>>

NextExec ==
  \/ EngineData(Batches, MaxEvents)
  \/ EngineDataError(Errors, MaxEvents)
  \/ EngineDone(MaxEvents)
  \/ EngineDoneError(Errors, MaxEvents)
  \/ queryCollect
  \/ queryReturn

SpecExec == InitExec /\ [][NextExec]_vars

\* the query() call of Spec on a fresh instance, with the scheduling the
\* runtime guarantees: a continuation whose awaited promise has settled is
\* run.  Nothing is assumed of the engine.
SpecLive ==
  /\ InitDriver
  /\ [][Next]_vars
  /\ WF_vars(queryOpened)
  /\ WF_vars(queryDispatch)
  /\ WF_vars(queryCollect)
  /\ WF_vars(queryReturn)

\* ------------------------------------- one testConnection() call (SpecTest)
TestConnection ==
  \E throws \in BOOLEAN, err \in CtorErrors : testConnection(throws, err)

TestQuery ==
  \E throws \in BOOLEAN, err \in CtorErrors : testQuery(throws, err)

InitTest == InitDriver \/ InitOpened

NextTest ==
  \/ TestConnection
  \/ testOpened
  \/ TestQuery
  \/ queryOpened
  \/ queryDispatch
  \/ queryCollect
  \/ queryReturn
  \/ EngineData(FewBatches, MaxCalls)
  \/ EngineDataError(Errors, MaxCalls)
  \/ EngineDone(MaxCalls)
  \/ EngineDoneError(Errors, MaxCalls)
  \/ testFinish

SpecTest == InitTest /\ [][NextTest]_vars

\* ------------------------------------------------------- connection claims
\* no close() was called and none completed between open() calls i and j
NoCloseBetween(i, j) ==
  /\ opens[i].closeCalls = opens[j].closeCalls
  /\ opens[i].discards = opens[j].discards

\* C1: open() calls with no close() in between, settled or still pending,
\* all resolve to one client handle, and none after the first successful one
\* evaluates the client constructor again; on an instance that was never
\* closed the client is constructed exactly once.
C1_OpenMemoized ==
  /\ \A i, j \in DOMAIN opens :
        (i < j /\ opens[i].outcome = "resolved" /\ NoCloseBetween(i, j)) =>
          /\ opens[j].outcome = "resolved"
          /\ opens[j].value = opens[i].value
          /\ ~opens[j].attempted
  /\ (closes = <<>> /\ \E i \in DOMAIN opens : opens[i].outcome = "resolved") =>
        /\ clients = 1
        /\ Cardinality({c \in DOMAIN ctorLog : ~ctorLog[c].threw}) = 1

\* three interleaved open() calls, none observed yet, one client
C1_Witness ==
  /\ Len(opens) = 3
  /\ closes = <<>>
  /\ \A i \in DOMAIN opens : ~opens[i].settled /\ opens[i].outcome = "resolved"
  /\ clients = 1

\* C8: a close() call that finds no memoized handle (never opened, or already
\* discarded) resolves in the same step without error, evaluates no client
\* constructor and leaves the reference unset.
C8_CloseWithoutHandle ==
  [][(Len(closes') = Len(closes) + 1 /\ connection = Null) =>
       /\ closes'[Len(closes')].pc = "done"
       /\ ~closes'[Len(closes')].found
       /\ connection' = Null
       /\ clients' = clients
       /\ ctorLog' = ctorLog]_vars

\* close() on a fresh instance, and again after a close() discarded a handle
C8_Witness ==
  /\ Len(closes) = 3
  /\ ~closes[1].found /\ closes[1].awaited = Null
  /\ closes[2].found /\ closes[2].pc = "done"
  /\ ~closes[3].found /\ closes[3].pc = "done"
  /\ connection = Null
  /\ clients = 1

\* C9: a completing close() nulls the reference; an open() that finds it
\* null and succeeds constructs a handle no earlier open() returned and no
\* close() discarded; a set reference is the handle of the latest
\* constructing open(), and only a completing close() takes it away.
C9_Lifecycle ==
  /\ [](connection # Null =>
          /\ connection = clients
          /\ \E i \in DOMAIN opens : opens[i].constructed /\ opens[i].value = connection)
  /\ [](\A j \in DOMAIN opens :
          (opens[j].before = Null /\ opens[j].outcome = "resolved") =>
            /\ opens[j].constructed
            /\ \A i \in 1..(j - 1) : opens[i].value # opens[j].value
            /\ \A k \in DOMAIN closes :
                 (closes[k].found /\ k <= opens[j].closeCalls) =>
                   closes[k].awaited # opens[j].value)
  /\ [][(\E k \in DOMAIN closes : closes[k].pc = "await" /\ closes'[k].pc = "done")
          => connection' = Null]_vars
  /\ [][(connection # Null /\ connection' # connection) =>
          /\ connection' = Null
          /\ \E k \in DOMAIN closes : closes[k].pc = "await" /\ closes'[k].pc = "done"]_vars

\* open, close completed, open again: the second handle is memoized
C9_Witness ==
  /\ connection = 2
  /\ \E k \in DOMAIN closes : closes[k].found /\ closes[k].pc = "done" /\ closes[k].awaited = 1
  /\ \E j \in DOMAIN opens : opens[j].settled /\ opens[j].value = 2 /\ opens[j].constructed

\* C10: an open() whose client construction throws returns a promise rejected
\* with the thrown error, the reference stays unset, and the next open()
\* evaluates the constructor again.
C10_ConstructionFailure ==
  \A i \in DOMAIN opens :
    /\ opens[i].outcome \in {"resolved", "rejected"}
    /\ (opens[i].attempted /\ ctorLog[opens[i].ctor].threw) =>
         /\ opens[i].outcome = "rejected"
         /\ opens[i].error = ctorLog[opens[i].ctor].error
         /\ IF i = Len(opens)
            THEN connection = Null
            ELSE /\ opens[i + 1].before = Null
                 /\ opens[i + 1].attempted
                 /\ opens[i + 1].ctor = opens[i].ctor + 1

\* a failed open() observed by its caller, followed by a successful one
C10_Witness ==
  \E i \in DOMAIN opens :
    /\ opens[i].outcome = "rejected" /\ opens[i].settled
    /\ opens[i].error \in CtorErrors
    /\ i + 1 \in DOMAIN opens
    /\ opens[i + 1].constructed

\* ------------------------------------------------------------ query claims
\* C2: a query() call that returns has one record per statement of the
\* parser's output, the i-th record built from the i-th statement's
\* execution: error-flagged with that execution's error when it failed,
\* carrying that statement and that execution's rows when it succeeded.
C2_RecordPerStatement ==
  qpc = "returned" =>
    /\ Len(resultsAgg) = Len(statements(queryArg))
    /\ Len(execs) = Len(statements(queryArg))
    /\ \A i \in DOMAIN resultsAgg :
         /\ execs[i].query = statements(queryArg)[i]
         /\ resultsAgg[i].error = (execs[i].state = "rejected")
         /\ resultsAgg[i].error => resultsAgg[i].rawError = execs[i].error
         /\ ~resultsAgg[i].error =>
              /\ resultsAgg[i].results = i
              /\ resultsAgg[i].query = statements(queryArg)[i]

\* two statements, the first failed and the second succeeded
C2_Witness ==
  /\ qpc = "returned"
  /\ Len(resultsAgg) = 2
  /\ resultsAgg[1].error
  /\ ~resultsAgg[2].error
  /\ stmts[1] # stmts[2]

\* the errors the engine has delivered for execs[k], through either callback
delivered(k) ==
  {execs[k].log[n].error : n \in {m \in DOMAIN execs[k].log :
                                    execs[k].log[m].type \in {"dataError", "doneError"}}}

\* C3: query() rejects only because its open() did, never for an error the
\* engine delivered: such an error ends up in an error-flagged record of its
\* statement, and a call that returns has executed every statement.
C3_ErrorsContained ==
  /\ qpc = "rejected" =>
       /\ opens[qopen].outcome = "rejected"
       /\ qerror \in CtorErrors
       /\ execs = <<>>
  /\ \A i \in DOMAIN resultsAgg :
       execs[i].state = "rejected" =>
         /\ resultsAgg[i].error
         /\ resultsAgg[i].rawError \in delivered(i)
  /\ \A i \in DOMAIN execs :
       (execs[i].state = "rejected" /\ i \notin DOMAIN resultsAgg) =>
         (i = qi /\ qpc = "await")
  /\ qpc = "returned" =>
       \A j \in DOMAIN stmts : j \in DOMAIN execs /\ j \in DOMAIN resultsAgg

\* the first statement failed in the data callback, the second in the
\* completion callback, and the call returned both records
C3_Witness ==
  /\ qpc = "returned"
  /\ Len(resultsAgg) = 2
  /\ resultsAgg[1].error /\ execs[1].log[1].type = "dataError"
  /\ resultsAgg[2].error /\ execs[2].log[1].type = "doneError"

\* C4: the statements are handed to the engine one at a time in parse order:
\* whenever a statement has been dispatched, the promise of every statement
\* dispatched before it has settled.
C4_Sequential ==
  /\ Len(execs) <= Len(statements(queryArg))
  /\ \A k \in DOMAIN execs :
       /\ execs[k].query = statements(queryArg)[k]
       /\ k < Len(execs) => execs[k].state # "pending"
  /\ Cardinality({k \in DOMAIN execs : execs[k].state = "pending"}) <= 1

\* the second statement is in flight after the first has settled
C4_Witness ==
  /\ Len(execs) = 2
  /\ execs[1].state = "rejected"
  /\ execs[2].state = "pending"
  /\ execs[2].log # <<>>

\* ------------------------------------------------------------ exec claims
\* the callbacks that carry an error or a completion
deciding(ev) == ev.type \in {"dataError", "done", "doneError"}

\* C5: the promise of an execution is pending until the first callback that
\* carries an error or a completion; it is rejected with that callback's
\* error if it carries one and resolved otherwise, whatever callbacks follow;
\* the record of a rejected execution shows no rows.
C5_FirstEventDecides ==
  /\ \A k \in DOMAIN execs :
       LET log == execs[k].log
           D == {n \in DOMAIN log : deciding(log[n])}
       IN IF D = {} THEN execs[k].state = "pending"
          ELSE IF log[Min(D)].type = "done"
          THEN execs[k].state = "resolved" /\ execs[k].error = NoError
          ELSE /\ execs[k].state = "rejected"
               /\ execs[k].error = log[Min(D)].error
               /\ execs[k].value = NoValue
  /\ \A i \in DOMAIN resultsAgg :
       execs[i].state = "rejected" => resultsAgg[i].error /\ rowsOf(resultsAgg[i]) = <<>>

\* rows, then an error, then a successful completion: rejected, no rows shown
C5_Witness ==
  /\ Len(execs[1].log) = 3
  /\ execs[1].log[1].type = "data" /\ execs[1].results # <<>>
  /\ execs[1].log[2].type = "dataError"
  /\ execs[1].log[3].type = "done"
  /\ execs[1].state = "rejected"
  /\ Len(resultsAgg) = 1

\* the column names of the resolved tuple of execs[k]
reported(k) == {execs[k].value.cols[c].name : c \in DOMAIN execs[k].value.cols}

keysMatch(k) ==
  \A n \in DOMAIN execs[k].results : DOMAIN execs[k].results[n] = reported(k)

\* C6 as stated: on success every row mapping has the reported column names
\* as its keys, whatever batches the engine delivered.
C6_AnyBatches ==
  \A k \in DOMAIN execs : execs[k].state = "resolved" => keysMatch(k)

\* every batch delivered for execs[k] came before the completion that
\* resolved it and carries one and the same column list, and each row has as
\* many values as that list has descriptors
uniformBatches(k) ==
  LET log == execs[k].log
      data == {n \in DOMAIN log : log[n].type = "data"}
      done == Min({n \in DOMAIN log : deciding(log[n])})
  IN /\ \A n \in data : n < done
     /\ \A n, m \in data : log[n].columns = log[m].columns
     /\ \A n \in data : \A r \in DOMAIN log[n].rows :
          Len(log[n].rows[r]) = Len(log[n].columns)

\* C6 (amended): on success, if every batch came before the completion,
\* with one and the same column list and rows as long as that list, every
\* row mapping has the reported column names as its keys.
C6_UniformBatches ==
  \A k \in DOMAIN execs :
    (execs[k].state = "resolved" /\ uniformBatches(k)) => keysMatch(k)

\* two batches of two-column rows, then a successful completion
C6_Witness ==
  /\ execs[1].state = "resolved"
  /\ uniformBatches(1)
  /\ Len(execs[1].log) = 3
  /\ Len(execs[1].results) = 3
  /\ Len(execs[1].value.cols) = 2
  /\ Len(resultsAgg) = 1

\* C7: the record of a failed statement is error-flagged, shows no rows and
\* no columns, keeps the delivered error object as rawError, and has one
\* message: the error's text with a space in place of each newline.
C7_ErrorRecord ==
  \A i \in DOMAIN resultsAgg :
    execs[i].state = "rejected" =>
      LET r == resultsAgg[i]
          e == execs[i].error
      IN /\ r.error = TRUE
         /\ rowsOf(r) = <<>>
         /\ r.cols = <<>>
         /\ r.rawError = e
         /\ e \in delivered(i)
         /\ Len(r.messages) = 1
         /\ Len(r.messages[1].message) = Len(e.message)
         /\ \A j \in DOMAIN e.message :
              r.messages[1].message[j] = (IF e.message[j] = NL THEN " " ELSE e.message[j])
         /\ \A j \in DOMAIN r.messages[1].message : r.messages[1].message[j] # NL

\* the record of an error whose text has two newlines, rows delivered before it
C7_Witness ==
  /\ Len(resultsAgg) = 1
  /\ resultsAgg[1].error
  /\ resultsAgg[1].rawError = engineError(<<NL, "e", NL>>)
  /\ execs[1].results # <<>>

\* --------------------------------------------------- testConnection claims
\* C11: a testConnection() call whose open() succeeded has run the one
\* statement "SELECT 1"; it is rejected exactly when the first record is
\* error-flagged, with an object whose message is the text of that record's
\* messages joined by newlines (one message: the error's text, newlines
\* flattened); otherwise it resolves without a value.
C11_TestConnection ==
  (tpc \in {"resolved", "rejected"} /\ opens[topen].outcome = "resolved") =>
    /\ qpc = "returned"
    /\ Len(execs) = 1
    /\ execs[1].query = Select1
    /\ Len(resultsAgg) = 1
    /\ (tpc = "rejected") <=> resultsAgg[1].error
    /\ tpc = "rejected" =>
         /\ Len(resultsAgg[1].messages) = 1
         /\ tresult = [message |-> resultsAgg[1].messages[1].message]
         /\ Len(tresult.message) = Len(execs[1].error.message)
         /\ \A j \in DOMAIN tresult.message :
              tresult.message[j] =
                (IF execs[1].error.message[j] = NL THEN " " ELSE execs[1].error.message[j])
    /\ tpc = "resolved" => tresult = Undefined

\* the engine failed SELECT 1 with a two-newline error: rejected with its text
C11_Witness ==
  /\ tpc = "rejected"
  /\ opens[topen].outcome = "resolved"
  /\ resultsAgg[1].rawError = engineError(<<NL, "e", NL>>)
  /\ tresult = [message |-> <<" ", "e", " ">>]

\* ------------------------------------------------------- liveness claims
\* the engine has delivered an error or a completion for the k-th statement
answered(k) ==
  /\ k \in DOMAIN execs
  /\ \E n \in DOMAIN execs[k].log :
       execs[k].log[n].type \in {"dataError", "done", "doneError"}

\* a text of MaxQueryLen characters has at most this many statements
MaxStatements == (MaxQueryLen + 1) \div 2

\* the engine answers every statement it is handed
EngineAnswers ==
  \A k \in 1..MaxStatements : [](Len(execs) >= k => <>answered(k))

\* C12: if the engine answers every statement it is handed, a query() call
\* that was made settles, and one that returns has a record per statement;
\* a call returns only when every statement was answered; while the
\* statement in flight is unanswered the call stays where it is: nothing is
\* pushed and no further statement is dispatched.
C12_ReturnsIffAnswered ==
  /\ EngineAnswers =>
       ((qpc # "idle") ~>
          \/ qpc = "returned" /\ Len(resultsAgg) = Len(stmts)
          \/ qpc = "rejected" /\ execs = <<>>)
  /\ [](qpc = "returned" => \A k \in DOMAIN stmts : answered(k))
  /\ [][(qpc = "await" /\ execs'[qi].state = "pending") =>
          /\ qpc' = "await"
          /\ qi' = qi
          /\ Len(execs') = Len(execs)
          /\ resultsAgg' = resultsAgg]_vars

\* the second statement got two batches and no answer: the call is waiting
C12_Witness ==
  /\ qpc = "await"
  /\ Len(execs) = 2
  /\ Len(resultsAgg) = 1
  /\ ~answered(2)
  /\ Len(execs[2].log) = 2

\* ---------------------------------------------------------------------------
\* The explorer: getChildrenForItem() and getChildrenForGroup()
\* ---------------------------------------------------------------------------

MaxLookups == 2

\* the item tags of the host (ContextValue) and the child types an item can carry
ItemTypes ==
  {"CONNECTION", "CONNECTED_CONNECTION", "SCHEMA", "TABLE", "VIEW",
   "RESOURCE_GROUP", "COLUMN", "DATABASE", "FUNCTION"}

ChildTypes == {"TABLE", "VIEW", "COLUMN", "none"}

Items == [type : ItemTypes, childType : ChildTypes]

Parents == {"schema1", "schema2"}

Catalog == "catalog"

\* this.queryResults(queries.<name>(arg)): the catalog query handed to the
\* host's base driver; the answer is the engine's.
queryResults(name, arg) == [issued |-> name, arg |-> arg, children |-> <<>>]

\* a return without any query
returned(children) == [issued |-> "none", arg |-> Null, children |-> children]

StaticGroup(label, childType) ==
  [label |-> label, type |-> "RESOURCE_GROUP", iconId |-> "folder", childType |-> childType]

getChildrenForGroup_swapped(item, parent) ==
  CASE item.childType = "TABLE" -> queryResults("fetchViews", parent)
    [] item.childType = "VIEW" -> queryResults("fetchTables", parent)
    [] OTHER -> returned(<<>>)

getChildrenForGroup(item, parent) ==
  CASE item.childType = "TABLE" -> queryResults("fetchTables", parent)
    [] item.childType = "VIEW" -> queryResults("fetchViews", parent)
    [] OTHER -> returned(<<>>)

getChildrenForItem(item, parent) ==
  CASE item.type \in {"CONNECTION", "CONNECTED_CONNECTION"} ->
         queryResults("fetchSchemas", Catalog)
    [] item.type = "SCHEMA" ->
         returned(<<StaticGroup("Tables", "TABLE"), StaticGroup("Views", "VIEW")>>)
    [] item.type \in {"TABLE", "VIEW"} -> queryResults("fetchColumns", item)
    [] item.type = "RESOURCE_GROUP" -> getChildrenForGroup(item, parent)
    [] OTHER -> returned(<<>>)

\* the host asks for the children of a node of its tree
GetChildrenForItem ==
  \E item \in Items, parent \in Parents :
    /\ Len(lookups) < MaxLookups
    /\ lookups' = Append(lookups, [item |-> item, parent |-> parent,
                                   result |-> getChildrenForItem(item, parent)])
    /\ UNCHANGED <<connVars, queryVars, tpc, topen, tresult>>

InitExplorer == InitDriver \/ InitOpened

NextExplorer == GetChildrenForItem

SpecExplorer == InitExplorer /\ [][NextExplorer]_vars

\* C13: getChildrenForItem is a lookup on the item tag alone, whatever was
\* asked before: connection and connected-connection issue the list-schemas
\* query; schema returns exactly the two static groups "Tables" (child type
\* table) and "Views" (child type view) and issues nothing; table and view
\* issue the list-columns query for the item; a resource group issues the
\* list-tables or list-views query for its parent according to its child
\* type; every other tag, and a resource group of another child type, returns
\* the empty sequence and issues nothing.
C13_FlatLookup ==
  \A n \in DOMAIN lookups :
    LET it == lookups[n].item
        r  == lookups[n].result
    IN /\ it.type \in {"CONNECTION", "CONNECTED_CONNECTION"} =>
            r.issued = "fetchSchemas" /\ r.arg = Catalog
       /\ it.type = "SCHEMA" =>
            /\ r.issued = "none"
            /\ Len(r.children) = 2
            /\ r.children[1].label = "Tables" /\ r.children[1].childType = "TABLE"
            /\ r.children[2].label = "Views" /\ r.children[2].childType = "VIEW"
            /\ \A c \in 1..2 : r.children[c].type = "RESOURCE_GROUP"
       /\ it.type \in {"TABLE", "VIEW"} => r.issued = "fetchColumns" /\ r.arg = it
       /\ (it.type = "RESOURCE_GROUP" /\ it.childType = "TABLE") =>
            r.issued = "fetchTables" /\ r.arg = lookups[n].parent
       /\ (it.type = "RESOURCE_GROUP" /\ it.childType = "VIEW") =>
            r.issued = "fetchViews" /\ r.arg = lookups[n].parent
       /\ (\/ it.type \in {"COLUMN", "DATABASE", "FUNCTION"}
           \/ it.type = "RESOURCE_GROUP" /\ it.childType \notin {"TABLE", "VIEW"}) =>
            r.issued = "none" /\ r.children = <<>>
       /\ \A k \in DOMAIN lookups :
            (lookups[k].item.type = it.type /\ lookups[k].item.childType = it.childType
               /\ lookups[k].parent = lookups[n].parent) => lookups[k].result = r

C13_Witness ==
  /\ Len(lookups) = 2
  /\ lookups[1].item.type = "RESOURCE_GROUP" /\ lookups[1].item.childType = "VIEW"
  /\ lookups[1].result.issued = "fetchViews"
  /\ lookups[2].item.type = "SCHEMA" /\ Len(lookups[2].result.children) = 2

\* ---------------------------------------------------------------------------
\* query() over texts with blanks, semicolons and quoted literals
\* ---------------------------------------------------------------------------

MaxParseLen == 3

Select1Semi == Select1 \o <<";">>

SelectSemi ==
  <<"S", "E", "L", "E", "C", "T", " ", SQ, ";", SQ, " ", "A", "S", " ", "x">>

ParseChars == {"a", ";", " ", NL, SQ}

ParseInputs == TextsUpTo(ParseChars, MaxParseLen) \cup {Select1Semi, SelectSemi}

QueryParse ==
  \E q \in ParseInputs, err \in CtorErrors :
    query(q, "r1", FALSE, err) /\ UNCHANGED auxVars

InitParse == InitOpened

NextParse ==
  \/ QueryParse
  \/ queryOpened
  \/ queryDispatch
  \/ queryCollect
  \/ queryReturn
  \/ EngineDone(MaxCalls)
  \/ EngineDoneError(FewErrors, MaxCalls)

SpecParse == InitParse /\ [][NextParse]_vars

\* the call has parsed its text
parsed == qpc \in {"loop", "await", "returned"}

blank(text) == \A j \in DOMAIN text : IsSpace(text[j])

semis(text) == Cardinality({j \in DOMAIN text : text[j] = ";"})

RECURSIVE semisIn(_)
semisIn(texts) == IF texts = <<>> THEN 0 ELSE semis(Head(texts)) + semisIn(Tail(texts))

\* the semicolon at j lies inside a quoted literal: an odd number of quotes
\* precede it
inLiteral(text, j) ==
  /\ text[j] = ";"
  /\ Cardinality({i \in 1..(j - 1) : text[i] = SQ}) % 2 = 1

\* the text after the last semicolon of text (the whole text if it has none)
RECURSIVE afterLastSemi(_)
afterLastSemi(text) ==
  IF text = <<>> \/ text[Len(text)] = ";" THEN <<>>
  ELSE Append(afterLastSemi(SubSeq(text, 1, Len(text) - 1)), text[Len(text)])

\* C14: the parser never yields an empty or whitespace-only statement; a
\* trailing semicolon adds no statement (there are at most as many statements
\* as semicolons when nothing but blanks follows the last one, and
\* "SELECT 1;" is the one statement "SELECT 1"); an empty or whitespace-only
\* text has no statements, so query() hands nothing to the engine and returns
\* the empty list.
C14_NoBlankStatement ==
  parsed =>
    /\ \A k \in DOMAIN stmts : ~blank(stmts[k])
    /\ \A k \in DOMAIN execs : ~blank(execs[k].query)
    /\ blank(afterLastSemi(queryArg)) => Len(stmts) <= semis(queryArg)
    /\ Len(stmts) <= semis(queryArg) + 1
    /\ queryArg = Select1Semi => stmts = <<Select1>>
    /\ blank(queryArg) =>
         /\ stmts = <<>>
         /\ execs = <<>>
         /\ resultsAgg = <<>>
         /\ qpc \in {"loop", "returned"}

C14_Witness ==
  /\ qpc = "returned"
  /\ queryArg = Select1Semi
  /\ Len(execs) = 1
  /\ Len(resultsAgg) = 1
  /\ resultsAgg[1].query = Select1

\* C15: a semicolon inside a quoted literal does not split the text: it is
\* kept in a statement, and only the semicolons outside literals separate
\* statements; SELECT ';' AS x is one statement and query() returns exactly
\* one record for it.
C15_QuotedSemicolon ==
  parsed =>
    /\ Len(stmts) <= 1 + Cardinality({j \in DOMAIN queryArg :
                                        queryArg[j] = ";" /\ ~inLiteral(queryArg, j)})
    /\ semisIn(stmts) = Cardinality({j \in DOMAIN queryArg : inLiteral(queryArg, j)})
    /\ queryArg = SelectSemi =>
         /\ stmts = <<SelectSemi>>
         /\ Len(execs) <= 1
         /\ qpc = "returned" => Len(resultsAgg) = 1

C15_Witness ==
  /\ qpc = "returned"
  /\ queryArg = SelectSemi
  /\ Len(execs) = 1
  /\ Len(resultsAgg) = 1
  /\ resultsAgg[1].query = SelectSemi

\* ---------------------------------------------------------------------------
\* The result of a successful statement
\* ---------------------------------------------------------------------------

\* the name-keyed mapping of a positional row under a descriptor list: the
\* value at each position under the name at that position
keyed(row, columns) ==
  LET n == Min({Len(row), Len(columns)})
  IN [name \in {columns[i].name : i \in 1..n} |->
        row[Max({i \in 1..n : columns[i].name = name})]]

\* the rows of the batches among the first n events of log, in delivery order
RECURSIVE rowsBefore(_, _)
rowsBefore(log, n) ==
  IF n = 0 THEN <<>>
  ELSE rowsBefore(log, n - 1) \o
       (IF log[n].type = "data"
        THEN [i \in DOMAIN log[n].rows |-> keyed(log[n].rows[i], log[n].columns)]
        ELSE <<>>)

\* the descriptor list of the last batch among the first n events of log
colsBefore(log, n) ==
  LET data == {m \in 1..n : log[m].type = "data"}
  IN IF data = {} THEN <<>> ELSE log[Max(data)].columns

\* the step completes execs[k] successfully
completes(k) == execs[k].state = "pending" /\ execs'[k].state = "resolved"

\* the step builds the record of the successfully completed execs[qi]
collects == qpc = "await" /\ qpc' = "loop" /\ execs[qi].state = "resolved"

\* what C16 says of a completion and of the record built from it
tupleAsDelivered(k) ==
  /\ execs'[k].results = rowsBefore(execs[k].log, Len(execs[k].log))
  /\ execs'[k].value.cols = colsBefore(execs[k].log, Len(execs[k].log))

recordAsAccumulated ==
  LET r == resultsAgg'[Len(resultsAgg')]
      columns == execs[qi].value.cols
  IN /\ rowsOf(r) = execs[qi].results
     /\ r.cols = [c \in DOMAIN columns |-> columns[c].name]
     /\ r.messages = <<[message |-> successText(Len(execs[qi].results))]>>

\* no row delivered for execs[k] has more values than its batch has descriptors
rowsFit(k) ==
  \A n \in DOMAIN execs[k].log :
    \A r \in DOMAIN execs[k].log[n].rows :
      Len(execs[k].log[n].rows[r]) <= Len(execs[k].log[n].columns)

\* C16 as stated: on successful completion the rows are all the rows of all
\* the batches delivered before, in delivery order, each keyed by name; the
\* columns are the descriptor list of the last batch (none without a batch);
\* the success message counts the accumulated rows -- whatever rows the
\* engine delivered.
C16_AnyRows ==
  [][/\ \A k \in DOMAIN execs : completes(k) => tupleAsDelivered(k)
     /\ collects => recordAsAccumulated]_vars

\* C16 (amended): the same, for a statement none of whose delivered rows has
\* more values than its batch has column descriptors.
C16_FittingRows ==
  [][/\ \A k \in DOMAIN execs : (completes(k) /\ rowsFit(k)) => tupleAsDelivered(k)
     /\ collects => recordAsAccumulated]_vars

\* a batch of one row under one column list, a batch of two rows under
\* another, then the completion: three rows, the second list, "3 rows"
C16_Witness ==
  /\ Len(execs[1].log) = 3
  /\ execs[1].log[1].type = "data" /\ Len(execs[1].log[1].rows) = 1
  /\ execs[1].log[2].type = "data" /\ Len(execs[1].log[2].rows) = 2
  /\ execs[1].log[1].columns # execs[1].log[2].columns
  /\ execs[1].log[3].type = "done"
  /\ rowsFit(1)
  /\ Len(execs[1].results) = 3
  /\ execs[1].value.cols = execs[1].log[2].columns
  /\ Len(resultsAgg) = 1
  /\ resultsAgg[1].messages = <<[message |-> successText(3)]>>

\* ---------------------------------------------------------------------------
\* query() when open() fails
\* ---------------------------------------------------------------------------

\* the open() made by the query() call failed: the client constructor threw
openFailed == qopen # 0 /\ opens[qopen].outcome = "rejected"

\* C17: if the open() inside query() fails because the client constructor
\* throws, query() rejects with the error thrown, hands no statement to the
\* engine and builds no record, however many statements its text holds.
C17_OpenFailure ==
  openFailed =>
    /\ qpc \in {"open", "rejected"}
    /\ ctorLog[opens[qopen].ctor].threw
    /\ execs = <<>>
    /\ resultsAgg = <<>>
    /\ qpc = "rejected" => qerror = ctorLog[opens[qopen].ctor].error

\* a text of two statements, the constructor threw: rejected, nothing executed
C17_Witness ==
  /\ openFailed
  /\ qpc = "rejected"
  /\ Len(statements(queryArg)) = 2
  /\ qerror \in CtorErrors
  /\ execs = <<>>
  /\ resultsAgg = <<>>

\* ---------------------------------------------------------------------------
\* The fields of the returned records
\* ---------------------------------------------------------------------------

\* C18: in the list query() returns for a text of several statements, the
\* query field of every record, of a succeeded and of a failed statement
\* alike, is the text of the statement the record stands for, not the whole
\* text submitted; every record carries the request identifier of the call
\* and the identifier of the owning connection.
C18_RecordFields ==
  (qpc = "returned" /\ Len(statements(queryArg)) >= 2) =>
    \A i \in DOMAIN resultsAgg :
      /\ resultsAgg[i].query = statements(queryArg)[i]
      /\ resultsAgg[i].requestId = requestId
      /\ resultsAgg[i].connId = ConnId

====
